---- MODULE Spec2Model ----
(***************************************************************************)
(* django-tailwind-cli: configuration resolution (config.py) and the       *)
(* concurrent process supervisor (management/commands/tailwind.py).        *)
(*                                                                         *)
(* Python strings are modelled as sequences of one-character strings so    *)
(* that lower(), rstrip(), split(), replace() and f-string concatenation   *)
(* are computed the way the code computes them.                            *)
(***************************************************************************)
EXTENDS Integers, Sequences, FiniteSets, TLC

(* ---------------------------------------------------------------------- *)
(* String literals of config.py                                           *)
(* ---------------------------------------------------------------------- *)
FALLBACK_VERSION == <<"4",".","0",".","6">>

S_latest == <<"l","a","t","e","s","t">>

S_default_repo == <<"t","a","i","l","w","i","n","d","l","a","b","s","/","t","a","i","l","w","i","n","d","c","s","s">>

S_tailwindcss == <<"t","a","i","l","w","i","n","d","c","s","s">>

S_default_cli_dir == <<"~","/",".","l","o","c","a","l","/","b","i","n","/">>

S_default_dist == <<"c","s","s","/","t","a","i","l","w","i","n","d",".","c","s","s">>

S_default_src == <<"c","s","s","/","s","o","u","r","c","e",".","c","s","s">>

S_default_config == <<"t","a","i","l","w","i","n","d",".","c","o","n","f","i","g",".","j","s">>

S_github == <<"h","t","t","p","s",":","/","/","g","i","t","h","u","b",".","c","o","m","/">>

S_releases_download == <<"/","r","e","l","e","a","s","e","s","/","d","o","w","n","l","o","a","d","/","v">>

S_darwin == <<"d","a","r","w","i","n">>

S_macos == <<"m","a","c","o","s">>

S_windows == <<"w","i","n","d","o","w","s">>

S_x86_64 == <<"x","8","6","_","6","4">>

S_amd64 == <<"a","m","d","6","4">>

S_x64 == <<"x","6","4">>

S_aarch64 == <<"a","a","r","c","h","6","4">>

S_arm64 == <<"a","r","m","6","4">>

S_exe == <<".","e","x","e">>

S_output == <<"-","-","o","u","t","p","u","t">>

S_minify == <<"-","-","m","i","n","i","f","y">>

S_watch == <<"-","-","w","a","t","c","h">>

S_input == <<"-","-","i","n","p","u","t">>

V_4_0_0 == <<"4",".","0",".","0">>

(* ---------------------------------------------------------------------- *)
(* Input values the settings, the platform and the network are drawn from *)
(* ---------------------------------------------------------------------- *)
BASE_DIR == <<"/","p">>

HOME == <<"/","h","o","m","e","/","u">>

StaticDir == <<"/","p","/","a","s","s","e","t","s">>

Ver3 == <<"3",".","4",".","1","3">>

Ver4 == <<"4",".","0",".","0">>

CustomRepo == <<"o","/","r">>

CustomAsset == <<"t","w">>

CustomCliPath == <<"/","o","p","t","/","t","w">>

CustomDist == <<"d",".","c","s","s">>

CustomSrc == <<"s",".","c","s","s">>

CustomConfig == <<"c",".","j","s">>

Loc4 == <<"h","t","t","p","s",":","/","/","g","i","t","h","u","b",".","c","o","m","/","o","/","r","/","r","e","l","e","a","s","e","s","/","t","a","g","/","v","4",".","0",".","1","0">>

Loc3Slash == <<"h","t","t","p","s",":","/","/","g","i","t","h","u","b",".","c","o","m","/","o","/","r","/","r","e","l","e","a","s","e","s","/","t","a","g","/","v","3",".","4",".","1","7","/">>

LocDev == <<"h","t","t","p","s",":","/","/","g","i","t","h","u","b",".","c","o","m","/","o","/","r","/","r","e","l","e","a","s","e","s","/","t","a","g","/","v","4",".","0",".","0","-","d","e","v",".","1">>

RawWindows == <<"W","i","n","d","o","w","s">>

RawDarwin == <<"D","a","r","w","i","n">>

RawLinux == <<"L","i","n","u","x">>

RawAMD64 == <<"A","M","D","6","4">>

RawARM64 == <<"A","R","M","6","4">>

(* ---------------------------------------------------------------------- *)
(* Python values: None, an unset attribute, a string, a bool               *)
(* ---------------------------------------------------------------------- *)
Unset == [k |-> "unset", s |-> <<>>]

None == [k |-> "none", s |-> <<>>]

Str(s) == [k |-> "str", s |-> s]

PyFalse == [k |-> "false", s |-> <<>>]

PyTrue == [k |-> "true", s |-> <<>>]

\* getattr(settings, name, default)
Getattr(v, default) == IF v.k = "unset" THEN default ELSE v

\* truth value of a Python object: None, "" and False are falsy
Truthy(v) == (v.k = "str" /\ v.s # <<>>) \/ v.k = "true" \/ v.k = "path"

\* a pathlib.Path object (always truthy)
PathObj(s) == [k |-> "path", s |-> s]

(* ---------------------------------------------------------------------- *)
(* str methods                                                             *)
(* ---------------------------------------------------------------------- *)
Upper == <<"A","B","C","D","E","F","G","H","I","J","K","L","M","N","O","P","Q","R","S","T","U","V","W","X","Y","Z">>

LowerAlpha == <<"a","b","c","d","e","f","g","h","i","j","k","l","m","n","o","p","q","r","s","t","u","v","w","x","y","z">>

Digits == <<"0","1","2","3","4","5","6","7","8","9">>

IndexOf(s, c) == IF \E i \in 1..Len(s) : s[i] = c
                 THEN CHOOSE i \in 1..Len(s) : s[i] = c /\ \A j \in 1..(i-1) : s[j] # c
                 ELSE 0

\* str.lower() on one character
LowerChar(c) == IF IndexOf(Upper, c) # 0 THEN LowerAlpha[IndexOf(Upper, c)] ELSE c

\* str.lower()
StrLower(s) == [i \in 1..Len(s) |-> LowerChar(s[i])]

RECURSIVE RStrip(_, _)
\* str.rstrip(c)
RStrip(s, c) == IF s # <<>> /\ s[Len(s)] = c THEN RStrip(SubSeq(s, 1, Len(s) - 1), c) ELSE s

RECURSIVE Split(_, _)
\* str.split(c)
Split(s, c) == LET i == IndexOf(s, c)
               IN IF i = 0 THEN <<s>>
                  ELSE <<SubSeq(s, 1, i - 1)>> \o Split(SubSeq(s, i + 1, Len(s)), c)

\* str.replace(c, "")
ReplaceWithEmpty(s, c) == SelectSeq(s, LAMBDA x : x # c)

StartsWith(s, p) == Len(s) >= Len(p) /\ SubSeq(s, 1, Len(p)) = p

EndsWith(s, p) == Len(s) >= Len(p) /\ SubSeq(s, Len(s) - Len(p) + 1, Len(s)) = p

IsDigit(c) == IndexOf(Digits, c) # 0

RECURSIVE ToNat(_)
ToNat(ds) == IF ds = <<>> THEN 0
             ELSE 10 * ToNat(SubSeq(ds, 1, Len(ds) - 1)) + (IndexOf(Digits, ds[Len(ds)]) - 1)

(* ---------------------------------------------------------------------- *)
(* semver.Version                                                          *)
(* ---------------------------------------------------------------------- *)
\* a numeric identifier: digits only, no leading zero
IsNumericId(s) == /\ s # <<>>
                  /\ \A i \in 1..Len(s) : IsDigit(s[i])
                  /\ (Len(s) > 1 => s[1] # "0")

NoVersion == [valid |-> FALSE, major |-> 0, minor |-> 0, patch |-> 0, prerelease |-> <<>>]

\* Version.parse: <major>.<minor>.<patch>[-<prerelease>][+<build>]
VersionParse(s) ==
    LET plus == IndexOf(s, "+")
        nobuild == IF plus = 0 THEN s ELSE SubSeq(s, 1, plus - 1)
        build == IF plus = 0 THEN <<>> ELSE SubSeq(s, plus + 1, Len(s))
        dash == IndexOf(nobuild, "-")
        core == IF dash = 0 THEN nobuild ELSE SubSeq(nobuild, 1, dash - 1)
        pre == IF dash = 0 THEN <<>> ELSE SubSeq(nobuild, dash + 1, Len(nobuild))
        parts == Split(core, ".")
    IN IF /\ Len(parts) = 3
          /\ \A i \in 1..3 : IsNumericId(parts[i])
          /\ (dash # 0 => pre # <<>>)
          /\ (plus # 0 => build # <<>>)
       THEN [valid |-> TRUE, major |-> ToNat(parts[1]), minor |-> ToNat(parts[2]),
             patch |-> ToNat(parts[3]), prerelease |-> pre]
       ELSE NoVersion

\* Version.__ge__ against a release version (one without a prerelease part):
\* the (major, minor, patch) triples are compared first; on a tie a version
\* with a prerelease part is the smaller one.
VersionGE(a, b) ==
    \/ a.major > b.major
    \/ a.major = b.major /\ a.minor > b.minor
    \/ a.major = b.major /\ a.minor = b.minor /\ a.patch > b.patch
    \/ a.major = b.major /\ a.minor = b.minor /\ a.patch = b.patch /\ a.prerelease = <<>>


(* ---------------------------------------------------------------------- *)
(* pathlib.Path                                                            *)
(* ---------------------------------------------------------------------- *)
\* Path(s): trailing slashes are dropped (the root stays)
PathNorm(s) == IF Len(s) > 1 THEN (IF RStrip(s, "/") = <<>> THEN <<"/">> ELSE RStrip(s, "/")) ELSE s

\* Path(a) / b: an absolute right operand replaces the left one
PathJoin(a, b) == IF b # <<>> /\ b[1] = "/" THEN PathNorm(b)
                  ELSE IF b = <<>> THEN PathNorm(a)
                  ELSE IF PathNorm(a) = <<"/">> THEN <<"/">> \o PathNorm(b)
                  ELSE PathNorm(a) \o <<"/">> \o PathNorm(b)

\* Path.expanduser(): a leading "~" component becomes the home directory
ExpandUser(p) == IF p = <<"~">> THEN HOME
                 ELSE IF StartsWith(p, <<"~", "/">>) THEN HOME \o SubSeq(p, 2, Len(p))
                 ELSE p

\* Path.name: the last path component
PathName(p) == LET parts == Split(p, "/") IN parts[Len(parts)]

\* what the file system holds at a path: only the configured CLI path can be
\* a regular file, every other path the code probes is a directory
FsKind(p, fsCli) == IF p = PathNorm(CustomCliPath) THEN fsCli ELSE "dir"

(* ---------------------------------------------------------------------- *)
(* config.py                                                               *)
(* ---------------------------------------------------------------------- *)
NoResponse == [raises |-> FALSE, ok |-> FALSE, location |-> None]

\* config.get_version
get_version(st, resp) ==
    LET configured == Getattr(st.TAILWIND_CLI_VERSION, Str(S_latest))
        repo_url == Getattr(st.TAILWIND_CLI_SRC_REPO, Str(S_default_repo))
        fromLocation == ReplaceWithEmpty(
                            LET parts == Split(RStrip(resp.location.s, "/"), "/")
                            IN parts[Len(parts)],
                            "v")
        looked == IF resp.ok /\ resp.location.k = "str" THEN fromLocation ELSE FALLBACK_VERSION
        fail(status, msg, n) == [status |-> status, msg |-> msg, version_str |-> <<>>,
                                 version |-> NoVersion, requests |-> n]
        done(vs, n) == IF VersionParse(vs).valid
                       THEN [status |-> "ok", msg |-> "", version_str |-> vs,
                             version |-> VersionParse(vs), requests |-> n]
                       ELSE fail("ValueError", "not valid SemVer string", n)
    IN IF configured = Str(S_latest)
       THEN IF ~Truthy(repo_url)
            THEN fail("ValueError", "TAILWIND_CLI_SRC_REPO must not be None.", 0)
            ELSE IF resp.raises
            THEN fail("RequestException", "requests.get raised", 1)
            ELSE done(looked, 1)
       ELSE done(configured.s, 0)

NoConfig == [status |-> "none", msg |-> "", version_str |-> <<>>, version |-> NoVersion,
             system |-> <<>>, machine |-> <<>>, extension |-> <<>>,
             cli_path |-> <<>>, download_url |-> <<>>, dist_css |-> <<>>,
             dist_css_base |-> <<>>, src_css |-> None, config_file |-> None,
             automatic_download |-> PyTrue, requests |-> 0]

\* the platform identifier of get_config
NormSystem(raw) == IF StrLower(raw) = S_darwin THEN S_macos ELSE StrLower(raw)

NormMachine_NoLower(raw) == IF raw \in {S_x86_64, S_amd64} THEN S_x64
                            ELSE IF raw = S_aarch64 THEN S_arm64
                            ELSE raw

\* the machine identifier of get_config
NormMachine(raw) == IF StrLower(raw) \in {S_x86_64, S_amd64} THEN S_x64
                    ELSE IF StrLower(raw) = S_aarch64 THEN S_arm64
                    ELSE StrLower(raw)

Extension(system) == IF system = S_windows THEN S_exe ELSE <<>>

\* the path of the CLI binary
CliPath(st, fsCli, system, machine, version_str, extension) ==
    LET configured == Getattr(st.TAILWIND_CLI_PATH, Str(S_default_cli_dir))
        cli_path == PathNorm(IF Truthy(configured) THEN configured.s ELSE BASE_DIR)
    IN IF FsKind(cli_path, fsCli) = "file_x"
       THEN ExpandUser(cli_path)
       ELSE PathJoin(ExpandUser(cli_path),
                     S_tailwindcss \o <<"-">> \o system \o <<"-">> \o machine
                         \o <<"-">> \o version_str \o extension)

DownloadUrl_Versioned(repo_url, version_str, asset_name, system, machine, extension) ==
    S_github \o repo_url \o S_releases_download \o version_str \o <<"/">>
        \o asset_name \o <<"-">> \o system \o <<"-">> \o machine \o <<"-">> \o version_str \o extension

DownloadUrl(repo_url, version_str, asset_name, system, machine, extension) ==
    S_github \o repo_url \o S_releases_download \o version_str \o <<"/">>
        \o asset_name \o <<"-">> \o system \o <<"-">> \o machine \o extension

\* get_config, lines 123-133: the source stylesheet setting that applies
SrcSetting(st, v4) == Getattr(st.TAILWIND_CLI_SRC_CSS, IF v4 THEN Str(S_default_src) ELSE None)

\* get_config, lines 123-133: src_css
SrcCss(st, v4) == IF Truthy(SrcSetting(st, v4))
                  THEN PathObj(PathJoin(st.STATICFILES_DIRS.l[1], SrcSetting(st, v4).s))
                  ELSE None

\* get_config, lines 125-127: the ValueError for the source stylesheet ("" is no error)
SrcCssError(st, v4) == IF v4 /\ ~Truthy(SrcSetting(st, v4))
                       THEN "TAILWIND_CLI_SRC_CSS must not be None."
                       ELSE ""

\* get_config, lines 135-144: the config file setting that applies
ConfigSetting(st, v4) == Getattr(st.TAILWIND_CLI_CONFIG_FILE,
                                 IF v4 THEN None ELSE Str(S_default_config))

ConfigFile_SetFor4(st, v4) == PathObj(PathJoin(BASE_DIR, ConfigSetting(st, v4).s))

\* get_config, lines 135-144: config_file
ConfigFile(st, v4) == IF v4 THEN None
                      ELSE PathObj(PathJoin(BASE_DIR, ConfigSetting(st, v4).s))

ConfigFileError_Lenient(st, v4) == IF ~v4 /\ ~Truthy(ConfigSetting(st, v4))
                                   THEN "TAILWIND_CLI_CONFIG_FILE must not be None."
                                   ELSE ""

\* get_config, lines 137-143: the ValueError for the config file ("" is no error)
ConfigFileError(st, v4) ==
    IF ~v4 /\ ~Truthy(ConfigSetting(st, v4))
    THEN "TAILWIND_CLI_CONFIG_FILE must not be None."
    ELSE IF v4 /\ Truthy(ConfigSetting(st, v4))
    THEN "TAILWIND_CLI_CONFIG_FILE is not used by this library with Tailwind CSS >= 4.x."
    ELSE ""

\* config.get_config
get_config(st, plat, fsCli, resp) ==
    LET fail(status, msg, n) == [NoConfig EXCEPT !.status = status, !.msg = msg, !.requests = n]
        system == NormSystem(plat.system)
        machine == NormMachine(plat.machine)
        extension == Extension(system)
        gv == get_version(st, resp)
        version_str == gv.version_str
        version == gv.version
        cli_path == CliPath(st, fsCli, system, machine, version_str, extension)
        asset_name == Getattr(st.TAILWIND_CLI_ASSET_NAME, Str(S_tailwindcss))
        repo_url == Getattr(st.TAILWIND_CLI_SRC_REPO, Str(S_default_repo))
        download_url == DownloadUrl(repo_url.s, version_str, asset_name.s, system, machine, extension)
        dist_css_base == Getattr(st.TAILWIND_CLI_DIST_CSS, Str(S_default_dist))
        dist_css == PathJoin(st.STATICFILES_DIRS.l[1], dist_css_base.s)
        v4 == VersionGE(version, VersionParse(V_4_0_0))
        automatic_download == Getattr(st.TAILWIND_CLI_AUTOMATIC_DOWNLOAD, PyTrue)
    IN IF st.STATICFILES_DIRS.k = "none" \/ Len(st.STATICFILES_DIRS.l) = 0
       THEN fail("ValueError", "STATICFILES_DIRS is empty. Please add a path to your static files.", 0)
       ELSE IF gv.status # "ok"
       THEN fail(gv.status, gv.msg, gv.requests)
       ELSE IF ~Truthy(asset_name)
       THEN fail("ValueError", "TAILWIND_CLI_ASSET_NAME must not be None.", gv.requests)
       ELSE IF ~Truthy(repo_url)
       THEN fail("ValueError", "TAILWIND_CLI_SRC_REPO must not be None.", gv.requests)
       ELSE IF ~Truthy(dist_css_base)
       THEN fail("ValueError", "TAILWIND_CLI_DIST_CSS must not be None.", gv.requests)
       ELSE IF SrcCssError(st, v4) # ""
       THEN fail("ValueError", SrcCssError(st, v4), gv.requests)
       ELSE IF ConfigFileError(st, v4) # ""
       THEN fail("ValueError", ConfigFileError(st, v4), gv.requests)
       ELSE [status |-> "ok", msg |-> "", version_str |-> version_str, version |-> version,
             system |-> system, machine |-> machine, extension |-> extension,
             cli_path |-> cli_path, download_url |-> download_url, dist_css |-> dist_css,
             dist_css_base |-> dist_css_base.s, src_css |-> SrcCss(st, v4),
             config_file |-> ConfigFile(st, v4),
             automatic_download |-> automatic_download, requests |-> gv.requests]

watch_cmd_NoInput(c) == <<c.cli_path, S_output, c.dist_css, S_watch>>

\* Config.watch_cmd
watch_cmd(c) == <<c.cli_path, S_output, c.dist_css, S_watch>>
                    \o (IF Truthy(c.src_css) THEN <<S_input, c.src_css.s>> ELSE <<>>)

\* Config.build_cmd
build_cmd(c) == <<c.cli_path, S_output, c.dist_css, S_minify>>
                    \o (IF Truthy(c.src_css) THEN <<S_input, c.src_css.s>> ELSE <<>>)

(* ---------------------------------------------------------------------- *)
(* Bounds                                                                  *)
(* ---------------------------------------------------------------------- *)
\* how many of the optional settings a project sets explicitly
MaxSet == 3

\* how many signals arrive while start_concurrent_processes runs
MaxSignals == 1

MaxOps == 3

MaxTime == 5

(* ---------------------------------------------------------------------- *)
(* State                                                                   *)
(* ---------------------------------------------------------------------- *)
VARIABLES
    settings,   \* django.conf.settings: the settings get_config reads
    platform,   \* what platform.system() and platform.machine() return
    fsCli,      \* what the file system holds at the configured TAILWIND_CLI_PATH
    resp,       \* the response requests.get gave to the last "latest" lookup
    ver,        \* outcome of the last get_version call
    cfg,        \* outcome of the last get_config call
    processes,  \* ProcessManager.processes: the handles, as child numbers
    shutdown_requested, \* ProcessManager.shutdown_requested
    stack,      \* the call stack of the main thread: start_concurrent_processes
                \* at the bottom, one frame per signal handler running above it
    child,      \* the two child processes and their Popen objects
    signals,    \* how many SIGINT/SIGTERM the supervisor has received
    result,     \* how start_concurrent_processes ended
    fs,         \* the files the commands touch: path -> file state
    dirs,       \* the directories that exist, among the parents of those files
    cache,      \* _FILE_CACHE: path -> (time of the check, existed)
    now,        \* time.time(), in seconds
    last,       \* what the last call did (its outcome and what it saw)
    resolved,   \* what get_config() returns under the settings of this process,
                \* by the answer to its version lookup
    ops         \* how many calls and file changes have happened

cfgvars == <<settings, platform, fsCli, resp, ver, cfg>>

supvars == <<processes, shutdown_requested, stack, child, signals, result>>

cmdvars == <<fs, dirs, cache, now, last, resolved, ops>>

vars == <<settings, platform, fsCli, resp, ver, cfg,
          processes, shutdown_requested, stack, child, signals, result,
          fs, dirs, cache, now, last, resolved, ops>>

\* tailwind.py, line 779
DEFAULT_SOURCE_CSS == <<"@","i","m","p","o","r","t"," ","\"","t","a","i","l","w","i","n","d","c","s","s","\"",";","\n">>

\* tailwind.py, line 780
DAISY_UI_SOURCE_CSS == <<"@","i","m","p","o","r","t"," ","\"","t","a","i","l","w","i","n","d","c","s","s","\"",";","\n","@","p","l","u","g","i","n"," ","\"","d","a","i","s","y","u","i","\"",";","\n">>

\* build, error_message
M_build_failed == <<"F","a","i","l","e","d"," ","t","o"," ","b","u","i","l","d"," ","p","r","o","d","u","c","t","i","o","n"," ","s","t","y","l","e","s","h","e","e","t">>

\* watch, error_message
M_watch_failed == <<"F","a","i","l","e","d"," ","t","o"," ","s","t","a","r","t"," ","i","n"," ","w","a","t","c","h"," ","m","o","d","e">>

\* watch, success_message, and the cancellation message of watch
M_watch_stopped == <<"S","t","o","p","p","e","d"," ","w","a","t","c","h","i","n","g"," ","f","o","r"," ","c","h","a","n","g","e","s",".">>

\* _execute_tailwind_command, cancellation message of build
M_build_canceled == <<"C","a","n","c","e","l","e","d"," ","b","u","i","l","d","i","n","g"," ","p","r","o","d","u","c","t","i","o","n"," ","s","t","y","l","e","s","h","e","e","t",".">>

\* _execute_tailwind_command, the generic cancellation message
M_canceled == <<"C","a","n","c","e","l","e","d"," ">>

\* _execute_tailwind_command, the error detail without stderr
M_unknown == <<"A","n"," ","u","n","k","n","o","w","n"," ","e","r","r","o","r"," ","o","c","c","u","r","r","e","d",".">>

\* build, success_message up to the path
M_built == <<"B","u","i","l","t"," ","p","r","o","d","u","c","t","i","o","n"," ","s","t","y","l","e","s","h","e","e","t"," ","'">>

\* build, success_message after the path
M_quote_dot == <<"'",".">>

\* build, the skip message up to the path
M_production == <<"P","r","o","d","u","c","t","i","o","n"," ","s","t","y","l","e","s","h","e","e","t"," ","'">>

\* build, the skip message after the path
M_up_to_date == <<"'"," ","i","s"," ","u","p"," ","t","o"," ","d","a","t","e","."," ","U","s","e"," ","-","-","f","o","r","c","e"," ","t","o"," ","r","e","b","u","i","l","d",".">>

\* _execute_tailwind_command, verbose: the exit code line
M_exit_code == <<"C","o","m","m","a","n","d"," ","f","a","i","l","e","d"," ","w","i","t","h"," ","e","x","i","t"," ","c","o","d","e"," ">>

\* _execute_tailwind_command, verbose: the header of the stderr echo
M_stderr_header == <<"S","t","a","n","d","a","r","d"," ","e","r","r","o","r",":">>

\* _execute_tailwind_command, verbose: the command line
M_executing == <<"E","x","e","c","u","t","i","n","g",":"," ">>

\* _execute_tailwind_command, verbose: the timing line
M_completed == <<"C","o","m","m","a","n","d"," ","c","o","m","p","l","e","t","e","d">>

\* the separator of the error line
S_colon == <<":"," ">>

\* the end of the generic cancellation message
S_dot == <<".">>

\* the word looked for in error_message
S_build == <<"b","u","i","l","d">>

\* the word looked for in error_message
S_watch_word == <<"w","a","t","c","h">>

\* an input: what the tool wrote on stderr
StderrText == <<"b","o","o","m">>

\* an input: the bytes of the release asset
BINARY == <<"E","L","F">>

\* an input: the bytes received before a stream broke
PARTIAL == <<"E">>

\* an input: a binary installed before
OLD_BINARY == <<"o","l","d">>

\* an input: a stylesheet the user wrote
CUSTOM_CSS == <<"x">>

(* ---------------------------------------------------------------------- *)
(* tailwind.py: the files the commands read and write                      *)
(* ---------------------------------------------------------------------- *)
\* no file at a path
Missing == [exists |-> FALSE, x |-> FALSE, content |-> <<>>, mtime |-> 0]

\* a regular file: x its executable bit, mtime its modification time
File(x, content, mtime) == [exists |-> TRUE, x |-> x, content |-> content, mtime |-> mtime]

\* Path.parent of an absolute path
Parent(p) == LET i == CHOOSE i \in 1..Len(p) : p[i] = "/" /\ \A j \in (i+1)..Len(p) : p[j] # "/"
             IN IF i = 1 THEN <<"/">> ELSE SubSeq(p, 1, i - 1)

\* Path.unlink()
Unlink(f, p) == [f EXCEPT ![p] = Missing]

\* Path.chmod(0o755)
Chmod755(f, p) == [f EXCEPT ![p].x = TRUE]

\* Path.exists()
Exists(f, p) == f[p].exists

\* os.access(path, os.X_OK)
Executable(f, p) == f[p].exists /\ f[p].x

\* open(path, "w"/"wb") and a complete write: creates the file (not executable) or
\* truncates it (mode kept); FileNotFoundError when the parent directory is missing
WriteFile(f, d, p, content, t) ==
    IF Parent(p) \notin d
    THEN [status |-> "FileNotFoundError", fs |-> f]
    ELSE [status |-> "ok", fs |-> [f EXCEPT ![p] = File(f[p].x, content, t)]]

\* what the release server can do with the download request
DownloadResponses ==
    {[raises |-> TRUE, bad_status |-> FALSE, sized |-> FALSE, breaks |-> FALSE],
     [raises |-> FALSE, bad_status |-> TRUE, sized |-> FALSE, breaks |-> FALSE]}
        \cup [raises : {FALSE}, bad_status : {FALSE}, sized : BOOLEAN, breaks : BOOLEAN]

NoDownload == [raises |-> FALSE, bad_status |-> FALSE, sized |-> FALSE, breaks |-> FALSE]

\* _download_cli_with_progress: the request, then the unsized write (no mkdir) or
\* mkdir and the chunked write; every requests.RequestException becomes a CommandError
download_cli_with_progress(filepath, f, d, t, dl) ==
    IF dl.raises \/ dl.bad_status
    THEN [status |-> "CommandError", fs |-> f, dirs |-> d]
    ELSE IF ~dl.sized
    THEN IF dl.breaks
         THEN [status |-> "CommandError", fs |-> f, dirs |-> d]
         ELSE LET w == WriteFile(f, d, filepath, BINARY, t)
              IN [status |-> w.status, fs |-> w.fs, dirs |-> d]
    ELSE LET made == d \cup {Parent(filepath)}
             opened == WriteFile(f, made, filepath, PARTIAL, t)
         IN IF dl.breaks
            THEN [status |-> "CommandError", fs |-> opened.fs, dirs |-> made]
            ELSE [status |-> "ok", fs |-> WriteFile(f, made, filepath, BINARY, t).fs, dirs |-> made]

is_cli_up_to_date_NotExecutable(f, cli_path) == Exists(f, cli_path) /\ ~Executable(f, cli_path)

\* _is_cli_up_to_date: the file exists and is executable (the version is not looked at)
is_cli_up_to_date(f, cli_path) == Exists(f, cli_path) /\ Executable(f, cli_path)

\* the validity window of _check_file_exists_cached, in seconds
CACHE_DURATION == 5

NoEntry == [cached |-> FALSE, last_check |-> 0, existed |-> FALSE]

\* _check_file_exists_cached: the answer and the cache after the call
check_file_exists_cached(f, ch, t, p) ==
    IF ch[p].cached /\ t - ch[p].last_check < CACHE_DURATION
    THEN [exists |-> ch[p].existed, cache |-> ch]
    ELSE [exists |-> Exists(f, p),
          cache |-> [ch EXCEPT ![p] = [cached |-> TRUE, last_check |-> t, existed |-> Exists(f, p)]]]

(* ---------------------------------------------------------------------- *)
(* tailwind.py: binary acquisition                                         *)
(* ---------------------------------------------------------------------- *)
\* the outcome of an acquisition that changed nothing
Untouched(status, f, d, ch) ==
    [status |-> status, fs |-> f, dirs |-> d, cache |-> ch, downloads |-> 0, checked |-> FALSE]

\* _download_cli_with_verbose, lines 736-745: chk is the answer of the cached check
AfterCheck(chk, f, d) ==
    [status |-> IF chk.exists THEN "ok" ELSE "CommandError", fs |-> f, dirs |-> d,
     cache |-> chk.cache, downloads |-> 0, checked |-> TRUE]

\* _download_cli_with_verbose, lines 757-776: got is the outcome of the download
AfterDownload(got, cli_path, ch) ==
    [status |-> got.status,
     fs |-> IF got.status = "ok" THEN Chmod755(got.fs, cli_path) ELSE got.fs,
     dirs |-> got.dirs, cache |-> ch, downloads |-> 1, checked |-> FALSE]

\* _download_cli_with_verbose: c is the configuration it resolved itself
download_cli_with_verbose(c, f, d, ch, t, force_download, dl) ==
    IF c.status # "ok" THEN Untouched(c.status, f, d, ch)
    ELSE IF ~force_download /\ ~Truthy(c.automatic_download)
    THEN AfterCheck(check_file_exists_cached(f, ch, t, c.cli_path), f, d)
    ELSE IF ~force_download /\ is_cli_up_to_date(f, c.cli_path)
    THEN Untouched("ok", f, d, ch)
    ELSE AfterDownload(download_cli_with_progress(c.cli_path, f, d, t, dl), c.cli_path, ch)

\* whether _download_cli_with_verbose gets as far as the download request
Downloads(c, f, force_download) ==
    /\ c.status = "ok"
    /\ force_download \/ Truthy(c.automatic_download)
    /\ force_download \/ ~is_cli_up_to_date(f, c.cli_path)

(* ---------------------------------------------------------------------- *)
(* tailwind.py: source stylesheet bootstrap                                *)
(* ---------------------------------------------------------------------- *)
\* reading c.name raises AttributeError when Config has no such field
HasAttr(c, name) == name \in DOMAIN c

\* _should_recreate_file
should_recreate_file(f, file_path, content) ==
    ~Exists(f, file_path) \/ f[file_path].content # content

\* the outcome of a bootstrap that changed nothing
Unwritten(status, f, d) == [status |-> status, fs |-> f, dirs |-> d]

\* _create_standard_config_with_verbose, lines 813-842: the write, if any
WriteTemplate(should_create, content, src, f, d, t) ==
    IF should_create
    THEN [status |-> "ok", fs |-> WriteFile(f, d \cup {Parent(src)}, src, content, t).fs,
          dirs |-> d \cup {Parent(src)}]
    ELSE Unwritten("ok", f, d)

\* _create_standard_config_with_verbose: c is the configuration it resolved itself
create_standard_config_with_verbose(c, f, d, t, verbose) ==
    IF c.status # "ok" THEN Unwritten(c.status, f, d)
    ELSE IF verbose /\ ~(HasAttr(c, "overwrite_default_config") /\ HasAttr(c, "use_daisy_ui"))
    THEN Unwritten("AttributeError", f, d)
    ELSE IF ~Truthy(c.src_css) THEN Unwritten("ok", f, d)
    ELSE IF ~HasAttr(c, "use_daisy_ui") THEN Unwritten("AttributeError", f, d)
    ELSE IF ~HasAttr(c, "overwrite_default_config") THEN Unwritten("AttributeError", f, d)
    ELSE IF Truthy(c.overwrite_default_config)
    THEN WriteTemplate(should_recreate_file(f, c.src_css.s,
                           IF Truthy(c.use_daisy_ui) THEN DAISY_UI_SOURCE_CSS ELSE DEFAULT_SOURCE_CSS),
                       IF Truthy(c.use_daisy_ui) THEN DAISY_UI_SOURCE_CSS ELSE DEFAULT_SOURCE_CSS,
                       c.src_css.s, f, d, t)
    ELSE WriteTemplate(~Exists(f, c.src_css.s),
                       IF Truthy(c.use_daisy_ui) THEN DAISY_UI_SOURCE_CSS ELSE DEFAULT_SOURCE_CSS,
                       c.src_css.s, f, d, t)

(* ---------------------------------------------------------------------- *)
(* tailwind.py: running the build tool                                     *)
(* ---------------------------------------------------------------------- *)
RECURSIVE Contains(_, _)
\* sub in s
Contains(s, sub) == IF Len(s) < Len(sub) THEN FALSE
                    ELSE StartsWith(s, sub) \/ Contains(Tail(s), sub)

\* what subprocess.run(cmd, check=True) can do: the tool exits (CalledProcessError
\* when the code is not zero), the user interrupts it, or the binary cannot be started
RunOutcomes ==
    {[kind |-> "exit", returncode |-> 0, stderr |-> <<>>],
     [kind |-> "exit", returncode |-> 1, stderr |-> <<>>],
     [kind |-> "exit", returncode |-> 1, stderr |-> StderrText],
     [kind |-> "KeyboardInterrupt", returncode |-> 0, stderr |-> <<>>],
     [kind |-> "OSError", returncode |-> 0, stderr |-> <<>>]}

NoRun == [kind |-> "none", returncode |-> 0, stderr |-> <<>>]

\* _execute_tailwind_command, lines 617-623: the cancellation message, lower being
\* error_message.lower()
Cancellation(lower) == IF Contains(lower, S_build) THEN M_build_canceled
                       ELSE IF Contains(lower, S_watch_word) THEN M_watch_stopped
                       ELSE M_canceled \o lower \o S_dot

\* _execute_tailwind_command, lines 624-635: what the except clause prints
FailureLines(error_message, stderr, verbose) ==
    (IF verbose THEN <<M_exit_code>> ELSE <<>>)
        \o (IF verbose /\ stderr # <<>> THEN <<M_stderr_header, stderr>> ELSE <<>>)
        \o <<error_message \o S_colon \o (IF stderr # <<>> THEN stderr ELSE M_unknown)>>

\* _execute_tailwind_command, lines 593-595: what it prints before the run
Intro(verbose) == IF verbose THEN <<M_executing>> ELSE <<>>

execute_tailwind_command_ExitsOnInterrupt(cmd, success_message, error_message, capture_output, verbose, run) ==
    IF run.kind = "OSError" THEN [status |-> "OSError", out |-> Intro(verbose)]
    ELSE IF run.kind = "KeyboardInterrupt"
    THEN [status |-> "SystemExit",
          out |-> Intro(verbose) \o <<Cancellation(StrLower(error_message))>>]
    ELSE IF run.returncode = 0
    THEN [status |-> "ok",
          out |-> Intro(verbose) \o (IF verbose THEN <<M_completed>> ELSE <<>>)
                      \o <<success_message>>]
    ELSE [status |-> "SystemExit",
          out |-> Intro(verbose)
                      \o FailureLines(error_message,
                                      IF capture_output THEN run.stderr ELSE <<>>, verbose)]

\* _execute_tailwind_command: status "SystemExit" is sys.exit(1); out is what it printed,
\* the verbose lines by their fixed text (the tool writes nothing on stdout)
execute_tailwind_command(cmd, success_message, error_message, capture_output, verbose, run) ==
    IF run.kind = "OSError" THEN [status |-> "OSError", out |-> Intro(verbose)]
    ELSE IF run.kind = "KeyboardInterrupt"
    THEN [status |-> "ok",
          out |-> Intro(verbose) \o <<Cancellation(StrLower(error_message))>>]
    ELSE IF run.returncode = 0
    THEN [status |-> "ok",
          out |-> Intro(verbose) \o (IF verbose THEN <<M_completed>> ELSE <<>>)
                      \o <<success_message>>]
    ELSE [status |-> "SystemExit",
          out |-> Intro(verbose)
                      \o FailureLines(error_message,
                                      IF capture_output THEN run.stderr ELSE <<>>, verbose)]

\* handle_command_errors and the interpreter: the exit status of a command
ExitStatus(status) == IF status = "ok" THEN 0 ELSE 1

\* _should_rebuild_css: "AttributeError" when src_css is None and dist_css exists
should_rebuild_css(f, src_css, dist_css) ==
    IF ~Exists(f, dist_css) THEN "True"
    ELSE IF src_css = None THEN "AttributeError"
    ELSE IF ~Exists(f, src_css.s) THEN "True"
    ELSE IF f[src_css.s].mtime > f[dist_css].mtime THEN "True" ELSE "False"

(* ---------------------------------------------------------------------- *)
(* tailwind.py: the commands                                               *)
(* ---------------------------------------------------------------------- *)
\* _setup_tailwind_environment_with_verbose after its first step: acq is the outcome
\* of the acquisition, boot of the bootstrap
AfterSetup(c2, c3, acq, boot) ==
    IF acq.status # "ok"
    THEN [status |-> acq.status, fs |-> acq.fs, dirs |-> acq.dirs, cache |-> acq.cache,
          downloads |-> acq.downloads, configs |-> <<c2>>]
    ELSE [status |-> boot.status, fs |-> boot.fs, dirs |-> boot.dirs, cache |-> acq.cache,
          downloads |-> acq.downloads, configs |-> <<c2, c3>>]

\* the bootstrap step of the setup: acq is the outcome of the acquisition before it
BootstrapAfter(c2, c3, acq, t, verbose) ==
    AfterSetup(c2, c3, acq, create_standard_config_with_verbose(c3, acq.fs, acq.dirs, t, verbose))

\* _setup_tailwind_environment_with_verbose: c2 and c3 are the configurations the
\* two steps resolve themselves
setup_tailwind_environment_with_verbose(c2, c3, f, d, ch, t, verbose, dl) ==
    BootstrapAfter(c2, c3, download_cli_with_verbose(c2, f, d, ch, t, FALSE, dl), t, verbose)

\* the outcome of a command that stopped before the setup
BeforeSetup(status, c1, f, d, ch) ==
    [status |-> status, fs |-> f, dirs |-> d, cache |-> ch, downloads |-> 0,
     configs |-> <<c1>>, out |-> <<>>, ran |-> FALSE, cmd |-> <<>>]

\* the outcome of a command after the setup env
After(status, c1, env, out, ran, cmd) ==
    [status |-> status, fs |-> env.fs, dirs |-> env.dirs, cache |-> env.cache,
     downloads |-> env.downloads, configs |-> <<c1>> \o env.configs,
     out |-> out, ran |-> ran, cmd |-> cmd]

\* the end of build and watch: ex is the outcome of _execute_tailwind_command
AfterRun(c1, env, ex, cmd) == After(ex.status, c1, env, ex.out, TRUE, cmd)

\* build and watch after the setup env: the skip (build only), or the run of the tool
\* with the command of the first configuration
AfterEnv(op, c1, env, rebuild, verbose, run) ==
    IF env.status # "ok" THEN After(env.status, c1, env, <<>>, FALSE, <<>>)
    ELSE IF rebuild = "AttributeError" THEN After("AttributeError", c1, env, <<>>, FALSE, <<>>)
    ELSE IF rebuild = "False"
    THEN After("ok", c1, env, <<M_production \o c1.dist_css \o M_up_to_date>>, FALSE, <<>>)
    ELSE IF op = "watch"
    THEN AfterRun(c1, env,
                  execute_tailwind_command(watch_cmd(c1), M_watch_stopped, M_watch_failed,
                                           TRUE, verbose, run),
                  watch_cmd(c1))
    ELSE AfterRun(c1, env,
                  execute_tailwind_command(build_cmd(c1), M_built \o c1.dist_css \o M_quote_dot,
                                           M_build_failed, TRUE, verbose, run),
                  build_cmd(c1))

\* whether the command rebuilds: watch always, build when forced or when
\* _should_rebuild_css says so
Rebuild(op, c1, env, force) ==
    IF op = "watch" \/ force \/ env.status # "ok" THEN "True"
    ELSE should_rebuild_css(env.fs, c1.src_css, c1.dist_css)

\* build and watch after their get_config: env is the outcome of the setup
WithEnv(op, c1, env, force, verbose, run) ==
    AfterEnv(op, c1, env, Rebuild(op, c1, env, force), verbose, run)

\* the part build and watch share: the configuration, the setup, and then the skip or
\* the run of the tool
run_tool(op, c1, c2, c3, f, d, ch, t, force, verbose, dl, run) ==
    IF c1.status # "ok" THEN BeforeSetup(c1.status, c1, f, d, ch)
    ELSE IF op = "build" /\ verbose /\ ~HasAttr(c1, "use_daisy_ui")
    THEN BeforeSetup("AttributeError", c1, f, d, ch)
    ELSE WithEnv(op, c1, setup_tailwind_environment_with_verbose(c2, c3, f, d, ch, t, verbose, dl),
                 force, verbose, run)

\* the build command
build(c1, c2, c3, f, d, ch, t, force, verbose, dl, run) ==
    run_tool("build", c1, c2, c3, f, d, ch, t, force, verbose, dl, run)

\* the watch command
watch(c1, c2, c3, f, d, ch, t, verbose, dl, run) ==
    run_tool("watch", c1, c2, c3, f, d, ch, t, TRUE, verbose, dl, run)

\* the remove_cli command
remove_cli(c, f) == IF c.status = "ok" /\ Exists(f, c.cli_path) THEN Unlink(f, c.cli_path) ELSE f

RECURSIVE LookupCount(_)
\* the version lookups of the configurations a call resolved
LookupCount(configs) == IF configs = <<>> THEN 0
                        ELSE Head(configs).requests + LookupCount(Tail(configs))

\* the HTTP requests of a call: its version lookups and its download
RequestCount(configs, downloads) == LookupCount(configs) + downloads

NoCall == [op |-> "none", prev |-> "none", force |-> FALSE, verbose |-> FALSE, status |-> "none",
           requests |-> 0, downloads |-> 0, configs |-> <<>>, before |-> <<>>, dirsBefore |-> {},
           out |-> <<>>, ran |-> FALSE, cmd |-> <<>>, run |-> NoRun, dl |-> NoDownload,
           checked |-> FALSE]

\* no command has run
NoCommandRun ==
    /\ fs = <<>> /\ dirs = {} /\ cache = <<>> /\ now = 0 /\ last = NoCall
    /\ resolved = <<>> /\ ops = 0

(* ---------------------------------------------------------------------- *)
(* tailwind.py: ProcessManager                                             *)
(* ---------------------------------------------------------------------- *)
WATCH == 1

SERVER == 2

Children == {WATCH, SERVER}

\* exit statuses: a child exits by itself with 0 or 1; Popen reports a child
\* ended by SIGTERM as -15 and by SIGKILL as -9
SIGTERM_STATUS == 0 - 15

SIGKILL_STATUS == 0 - 9

\* a child that has not been launched
NoChild == [st |-> "none", status |-> 0, reaped |-> FALSE, term |-> FALSE, kill |-> FALSE,
            byItself |-> FALSE, sigterms |-> 0, sigkills |-> 0, terminateCalls |-> 0,
            oserr |-> FALSE]

\* a frame of the main thread: the function it runs, its position, the index
\* and the element of the for loop it is in, and what follows its cleanup
Frame(pc, after) == [pc |-> pc, i |-> 0, cur |-> 0, after |-> after]

\* ProcessManager.__init__, before start_concurrent_processes is entered
SupervisorConstructed ==
    /\ processes = <<>>
    /\ shutdown_requested = FALSE
    /\ stack = <<>>
    /\ child = [c \in Children |-> NoChild]
    /\ signals = 0
    /\ result = "idle"

\* ProcessManager.__init__ and the entry of start_concurrent_processes: the
\* signal handlers are installed and the try block is about to start
SupervisorStarted ==
    /\ processes = <<>>
    /\ shutdown_requested = FALSE
    /\ stack = <<Frame("popen_watch", "return")>>
    /\ child = [c \in Children |-> NoChild]
    /\ signals = 0
    /\ result = "running"

Top == stack[Len(stack)]

SetTop(f) == [stack EXCEPT ![Len(stack)] = f]

At(pc) == result = "running" /\ stack # <<>> /\ Top.pc = pc

\* Popen.poll(): a child that has ended is reaped and its returncode is set
Poll(ch, c) == IF ch[c].st = "dead" THEN [ch EXCEPT ![c].reaped = TRUE] ELSE ch

\* Popen.poll() is None
Running(ch, c) == ch[c].st = "alive"

\* subprocess.Popen(...): the child starts, or Popen raises (OSError)
Launch(c, next) ==
    \/ /\ child' = [child EXCEPT ![c].st = "alive"]
       /\ stack' = SetTop([Top EXCEPT !.pc = next])
    \/ /\ stack' = SetTop([Top EXCEPT !.pc = "except"])
       /\ UNCHANGED child

\* watch_process = subprocess.Popen(watch_cmd, ...)
PopenWatch ==
    /\ At("popen_watch")
    /\ Launch(WATCH, "append_watch")
    /\ UNCHANGED <<processes, shutdown_requested, signals, result>>
    /\ UNCHANGED cfgvars
    /\ UNCHANGED cmdvars

\* self.processes.append(watch_process); time.sleep(1)
AppendWatch ==
    /\ At("append_watch")
    /\ processes' = Append(processes, WATCH)
    /\ stack' = SetTop([Top EXCEPT !.pc = "popen_server"])
    /\ UNCHANGED <<shutdown_requested, child, signals, result>>
    /\ UNCHANGED cfgvars
    /\ UNCHANGED cmdvars

\* server_process = subprocess.Popen(server_cmd, ...)
PopenServer ==
    /\ At("popen_server")
    /\ Launch(SERVER, "append_server")
    /\ UNCHANGED <<processes, shutdown_requested, signals, result>>
    /\ UNCHANGED cfgvars
    /\ UNCHANGED cmdvars

\* self.processes.append(server_process); self._monitor_processes()
AppendServer ==
    /\ At("append_server")
    /\ processes' = Append(processes, SERVER)
    /\ stack' = SetTop([Top EXCEPT !.pc = "mon_while"])
    /\ UNCHANGED <<shutdown_requested, child, signals, result>>
    /\ UNCHANGED cfgvars
    /\ UNCHANGED cmdvars

\* the processes any(p.poll() is None for p in self.processes) polls: all of
\* them up to the first that is still running
PolledByAny == {processes[k] : k \in {j \in 1..Len(processes) :
                                          \A h \in 1..(j-1) : ~Running(child, processes[h])}}

\* _monitor_processes: the while condition, then time.sleep(0.5)
MonitorWhile ==
    /\ At("mon_while")
    /\ IF shutdown_requested
       THEN /\ stack' = SetTop([Top EXCEPT !.pc = "cl_iter", !.i = 0])
            /\ UNCHANGED child
       ELSE /\ child' = [c \in Children |-> IF c \in PolledByAny THEN Poll(child, c)[c] ELSE child[c]]
            /\ IF \E k \in 1..Len(processes) : Running(child, processes[k])
               THEN stack' = SetTop([Top EXCEPT !.pc = "mon_for", !.i = 0])
               ELSE stack' = SetTop([Top EXCEPT !.pc = "cl_iter", !.i = 0])
    /\ UNCHANGED <<processes, shutdown_requested, signals, result>>
    /\ UNCHANGED cfgvars
    /\ UNCHANGED cmdvars

MonitorFor_AnyExit ==
    /\ At("mon_for")
    /\ IF Top.i + 1 > Len(processes)
       THEN /\ stack' = SetTop([Top EXCEPT !.pc = "mon_while"])
            /\ UNCHANGED <<child, shutdown_requested>>
       ELSE LET c == processes[Top.i + 1]
            IN /\ child' = Poll(child, c)
               /\ IF ~Running(child, c)
                  THEN /\ shutdown_requested' = TRUE
                       /\ stack' = SetTop([Top EXCEPT !.pc = "mon_while"])
                  ELSE /\ stack' = SetTop([Top EXCEPT !.i = Top.i + 1])
                       /\ UNCHANGED shutdown_requested
    /\ UNCHANGED <<processes, signals, result>>
    /\ UNCHANGED cfgvars
    /\ UNCHANGED cmdvars

\* _monitor_processes: one iteration of "for process in self.processes"
MonitorFor ==
    /\ At("mon_for")
    /\ IF Top.i + 1 > Len(processes)
       THEN /\ stack' = SetTop([Top EXCEPT !.pc = "mon_while"])
            /\ UNCHANGED <<child, shutdown_requested>>
       ELSE LET c == processes[Top.i + 1]
            IN /\ child' = Poll(child, c)
               /\ IF ~Running(child, c) /\ child[c].status # 0
                  THEN /\ shutdown_requested' = TRUE
                       /\ stack' = SetTop([Top EXCEPT !.pc = "mon_while"])
                  ELSE /\ stack' = SetTop([Top EXCEPT !.i = Top.i + 1])
                       /\ UNCHANGED shutdown_requested
    /\ UNCHANGED <<processes, signals, result>>
    /\ UNCHANGED cfgvars
    /\ UNCHANGED cmdvars

\* except Exception: typer.secho(...); self._cleanup_processes(); raise
Except ==
    /\ At("except")
    /\ stack' = SetTop([Top EXCEPT !.pc = "cl_iter", !.i = 0, !.after = "reraise"])
    /\ UNCHANGED <<processes, shutdown_requested, child, signals, result>>
    /\ UNCHANGED cfgvars
    /\ UNCHANGED cmdvars

\* _cleanup_processes: the next element of "for process in self.processes"
CleanupIter ==
    /\ At("cl_iter")
    /\ IF Top.i + 1 > Len(processes)
       THEN stack' = SetTop([Top EXCEPT !.pc = "cl_clear"])
       ELSE stack' = SetTop([Top EXCEPT !.pc = "cl_poll", !.i = Top.i + 1,
                                        !.cur = processes[Top.i + 1]])
    /\ UNCHANGED <<processes, shutdown_requested, child, signals, result>>
    /\ UNCHANGED cfgvars
    /\ UNCHANGED cmdvars

CleanupPoll_SkipsRunning ==
    /\ At("cl_poll")
    /\ child' = Poll(child, Top.cur)
    /\ stack' = SetTop([Top EXCEPT !.pc = "cl_iter"])
    /\ UNCHANGED <<processes, shutdown_requested, signals, result>>
    /\ UNCHANGED cfgvars
    /\ UNCHANGED cmdvars

\* _cleanup_processes: if process.poll() is None
CleanupPoll ==
    /\ At("cl_poll")
    /\ child' = Poll(child, Top.cur)
    /\ stack' = SetTop([Top EXCEPT !.pc = IF Running(child, Top.cur) THEN "cl_terminate" ELSE "cl_iter"])
    /\ UNCHANGED <<processes, shutdown_requested, signals, result>>
    /\ UNCHANGED cfgvars
    /\ UNCHANGED cmdvars

\* _cleanup_processes: process.terminate(). Popen.send_signal sends nothing to a
\* child that has ended; otherwise SIGTERM is sent, or os.kill raises an OSError
\* that the except clause swallows
CleanupTerminate ==
    /\ At("cl_terminate")
    /\ LET c == Top.cur
           called == [child EXCEPT ![c].terminateCalls = @ + 1]
       IN \/ /\ ~Running(child, c)
             /\ child' = Poll(called, c)
             /\ stack' = SetTop([Top EXCEPT !.pc = "cl_wait5"])
          \/ /\ Running(child, c)
             /\ \/ /\ child' = [called EXCEPT ![c].term = TRUE, ![c].sigterms = @ + 1]
                   /\ stack' = SetTop([Top EXCEPT !.pc = "cl_wait5"])
                \/ /\ child' = [called EXCEPT ![c].oserr = TRUE]
                   /\ stack' = SetTop([Top EXCEPT !.pc = "cl_iter"])
    /\ UNCHANGED <<processes, shutdown_requested, signals, result>>
    /\ UNCHANGED cfgvars
    /\ UNCHANGED cmdvars

\* _cleanup_processes: process.wait(timeout=5) returns, or raises TimeoutExpired
CleanupWaitTimeout ==
    /\ At("cl_wait5")
    /\ child' = Poll(child, Top.cur)
    /\ stack' = SetTop([Top EXCEPT !.pc = IF Running(child, Top.cur) THEN "cl_kill" ELSE "cl_iter"])
    /\ UNCHANGED <<processes, shutdown_requested, signals, result>>
    /\ UNCHANGED cfgvars
    /\ UNCHANGED cmdvars

\* _cleanup_processes: process.kill()
CleanupKill ==
    /\ At("cl_kill")
    /\ LET c == Top.cur
       IN \/ /\ ~Running(child, c)
             /\ child' = Poll(child, c)
             /\ stack' = SetTop([Top EXCEPT !.pc = "cl_wait"])
          \/ /\ Running(child, c)
             /\ \/ /\ child' = [child EXCEPT ![c].kill = TRUE, ![c].sigkills = @ + 1]
                   /\ stack' = SetTop([Top EXCEPT !.pc = "cl_wait"])
                \/ /\ child' = [child EXCEPT ![c].oserr = TRUE]
                   /\ stack' = SetTop([Top EXCEPT !.pc = "cl_iter"])
    /\ UNCHANGED <<processes, shutdown_requested, signals, result>>
    /\ UNCHANGED cfgvars
    /\ UNCHANGED cmdvars

\* _cleanup_processes: process.wait() blocks until the child has ended
CleanupWait ==
    /\ At("cl_wait")
    /\ ~Running(child, Top.cur)
    /\ child' = Poll(child, Top.cur)
    /\ stack' = SetTop([Top EXCEPT !.pc = "cl_iter"])
    /\ UNCHANGED <<processes, shutdown_requested, signals, result>>
    /\ UNCHANGED cfgvars
    /\ UNCHANGED cmdvars

\* _cleanup_processes: self.processes.clear(), then the caller goes on: the
\* signal handler returns to the interrupted frame, start_concurrent_processes
\* returns, or its except clause re-raises
CleanupClear ==
    /\ At("cl_clear")
    /\ processes' = <<>>
    /\ IF Top.after = "pop"
       THEN /\ stack' = SubSeq(stack, 1, Len(stack) - 1)
            /\ UNCHANGED result
       ELSE /\ stack' = SetTop([Top EXCEPT !.pc = "done"])
            /\ result' = IF Top.after = "reraise" THEN "raised" ELSE "returned"
    /\ UNCHANGED <<shutdown_requested, child, signals>>
    /\ UNCHANGED cfgvars
    /\ UNCHANGED cmdvars

\* _signal_handler: SIGINT or SIGTERM arrives between two steps of the main
\* thread; the handler sets the flag and enters _cleanup_processes
SignalHandler ==
    /\ result = "running"
    /\ signals < MaxSignals
    /\ signals' = signals + 1
    /\ shutdown_requested' = TRUE
    /\ stack' = Append(stack, Frame("cl_iter", "pop"))
    /\ UNCHANGED <<processes, child, result>>
    /\ UNCHANGED cfgvars
    /\ UNCHANGED cmdvars

\* a child ends by itself, with status 0 or 1 (byItself: before the supervisor
\* sent it any signal)
ChildExit(c) ==
    /\ child[c].st = "alive"
    /\ \E code \in {0, 1} :
          child' = [child EXCEPT ![c].st = "dead", ![c].status = code,
                                 ![c].byItself = ~child[c].term /\ ~child[c].kill]
    /\ UNCHANGED <<processes, shutdown_requested, stack, signals, result>>
    /\ UNCHANGED cfgvars
    /\ UNCHANGED cmdvars

\* a child ends because of the SIGTERM it was sent
ChildTerminated(c) ==
    /\ child[c].st = "alive" /\ child[c].term
    /\ child' = [child EXCEPT ![c].st = "dead", ![c].status = SIGTERM_STATUS]
    /\ UNCHANGED <<processes, shutdown_requested, stack, signals, result>>
    /\ UNCHANGED cfgvars
    /\ UNCHANGED cmdvars

\* a child ends because of the SIGKILL it was sent
ChildKilled(c) ==
    /\ child[c].st = "alive" /\ child[c].kill
    /\ child' = [child EXCEPT ![c].st = "dead", ![c].status = SIGKILL_STATUS]
    /\ UNCHANGED <<processes, shutdown_requested, stack, signals, result>>
    /\ UNCHANGED cfgvars
    /\ UNCHANGED cmdvars

\* the steps of the main thread
SupervisorStep ==
    \/ PopenWatch \/ AppendWatch \/ PopenServer \/ AppendServer
    \/ MonitorWhile \/ MonitorFor \/ Except
    \/ CleanupIter \/ CleanupPoll \/ CleanupTerminate \/ CleanupWaitTimeout
    \/ CleanupKill \/ CleanupWait \/ CleanupClear

NoVer == [status |-> "none", msg |-> "", version_str |-> <<>>, version |-> NoVersion, requests |-> 0]

SettingNames == {"TAILWIND_CLI_VERSION", "TAILWIND_CLI_SRC_REPO", "TAILWIND_CLI_ASSET_NAME",
                 "TAILWIND_CLI_PATH", "TAILWIND_CLI_DIST_CSS", "TAILWIND_CLI_SRC_CSS",
                 "TAILWIND_CLI_CONFIG_FILE", "TAILWIND_CLI_AUTOMATIC_DOWNLOAD"}

StaticList(l) == [k |-> "list", l |-> l]

SettingsSpace ==
    [STATICFILES_DIRS : {[k |-> "none", l |-> <<>>], StaticList(<<>>), StaticList(<<StaticDir>>)},
     TAILWIND_CLI_VERSION : {Unset, Str(Ver3), Str(Ver4)},
     TAILWIND_CLI_SRC_REPO : {Unset, None, Str(CustomRepo)},
     TAILWIND_CLI_ASSET_NAME : {Unset, None, Str(<<>>), Str(CustomAsset)},
     TAILWIND_CLI_PATH : {Unset, None, Str(CustomCliPath)},
     TAILWIND_CLI_DIST_CSS : {Unset, None, Str(CustomDist)},
     TAILWIND_CLI_SRC_CSS : {Unset, Str(<<>>), Str(CustomSrc)},
     TAILWIND_CLI_CONFIG_FILE : {Unset, None, Str(CustomConfig)},
     TAILWIND_CLI_AUTOMATIC_DOWNLOAD : {Unset, PyFalse}]

\* the number of settings that differ from a project that only sets STATICFILES_DIRS
NumSet(st) == Cardinality({n \in SettingNames : st[n] # Unset})
                  + (IF st.STATICFILES_DIRS = StaticList(<<StaticDir>>) THEN 0 ELSE 1)

Platforms == {[system |-> RawWindows, machine |-> RawAMD64],
              [system |-> RawWindows, machine |-> RawARM64],
              [system |-> RawDarwin, machine |-> S_x86_64],
              [system |-> RawDarwin, machine |-> S_arm64],
              [system |-> RawLinux, machine |-> S_x86_64],
              [system |-> RawLinux, machine |-> S_aarch64]}

FsKinds == {"dir", "file_x", "file_nox"}

\* what requests.get can do: raise, or return a response
Responses == {[raises |-> TRUE, ok |-> FALSE, location |-> None]}
                 \cup [raises : {FALSE}, ok : BOOLEAN, location : {None, Str(Loc4)}]
                 \cup [raises : {FALSE}, ok : {TRUE}, location : {Str(Loc3Slash), Str(LocDev)}]

\* get_version issues a request only for "latest" with a source repository
Requests(st) == /\ Getattr(st.TAILWIND_CLI_VERSION, Str(S_latest)) = Str(S_latest)
                /\ Truthy(Getattr(st.TAILWIND_CLI_SRC_REPO, Str(S_default_repo)))

InitConfig ==
    /\ settings \in {st \in SettingsSpace : NumSet(st) <= MaxSet}
    /\ platform \in Platforms
    /\ fsCli \in (IF settings.TAILWIND_CLI_PATH = Str(CustomCliPath) THEN FsKinds ELSE {"dir"})
    /\ resp = NoResponse
    /\ ver = NoVer
    /\ cfg = NoConfig
    /\ SupervisorConstructed
    /\ NoCommandRun

\* a caller (a test, a command) calls get_version()
CallGetVersion ==
    /\ ver.status = "none" /\ cfg.status = "none"
    /\ \E r \in (IF Requests(settings) THEN Responses ELSE {NoResponse}) :
          /\ resp' = r
          /\ ver' = get_version(settings, r)
    /\ UNCHANGED <<settings, platform, fsCli, cfg>>
    /\ UNCHANGED supvars
    /\ UNCHANGED cmdvars

\* a caller (a command, the template tag) calls get_config()
CallGetConfig ==
    /\ ver.status = "none" /\ cfg.status = "none"
    /\ LET reaches == ~(settings.STATICFILES_DIRS.k = "none" \/ Len(settings.STATICFILES_DIRS.l) = 0)
       IN \E r \in (IF reaches /\ Requests(settings) THEN Responses ELSE {NoResponse}) :
             /\ resp' = r
             /\ ver' = IF reaches THEN get_version(settings, r) ELSE ver
             /\ cfg' = get_config(settings, platform, fsCli, r)
    /\ UNCHANGED <<settings, platform, fsCli>>
    /\ UNCHANGED supvars
    /\ UNCHANGED cmdvars

NextConfig == CallGetVersion \/ CallGetConfig

SpecConfig == InitConfig /\ [][NextConfig]_vars

DefaultSettings ==
    [STATICFILES_DIRS |-> StaticList(<<StaticDir>>),
     TAILWIND_CLI_VERSION |-> Unset, TAILWIND_CLI_SRC_REPO |-> Unset,
     TAILWIND_CLI_ASSET_NAME |-> Unset, TAILWIND_CLI_PATH |-> Unset,
     TAILWIND_CLI_DIST_CSS |-> Unset, TAILWIND_CLI_SRC_CSS |-> Unset,
     TAILWIND_CLI_CONFIG_FILE |-> Unset, TAILWIND_CLI_AUTOMATIC_DOWNLOAD |-> Unset]

InitSupervisor ==
    /\ settings = DefaultSettings
    /\ platform = [system |-> RawLinux, machine |-> S_x86_64]
    /\ fsCli = "dir"
    /\ resp = NoResponse
    /\ ver = NoVer
    /\ cfg = NoConfig
    /\ SupervisorStarted
    /\ NoCommandRun

NextSupervisor ==
    \/ PopenWatch \/ AppendWatch \/ PopenServer \/ AppendServer
    \/ MonitorWhile \/ MonitorFor \/ Except
    \/ CleanupIter \/ CleanupPoll \/ CleanupTerminate \/ CleanupWaitTimeout
    \/ CleanupKill \/ CleanupWait \/ CleanupClear
    \/ SignalHandler
    \/ \E c \in Children : ChildExit(c)
    \/ \E c \in Children : ChildTerminated(c)
    \/ \E c \in Children : ChildKilled(c)

SpecSupervisor == InitSupervisor /\ [][NextSupervisor]_vars

\* the main thread keeps running, and a child that was sent SIGKILL ends
FairSupervisor ==
    /\ SpecSupervisor
    /\ WF_vars(SupervisorStep)
    /\ \A c \in Children : WF_vars(ChildKilled(c))

(* ---------------------------------------------------------------------- *)
(* The commands, called one after the other in one process                 *)
(* ---------------------------------------------------------------------- *)
\* the settings the commands run under
CommandSettings ==
    {[DefaultSettings EXCEPT !.TAILWIND_CLI_VERSION = v, !.TAILWIND_CLI_AUTOMATIC_DOWNLOAD = a,
                             !.TAILWIND_CLI_SRC_CSS = s] :
        v \in {Unset, Str(Ver3), Str(Ver4)}, a \in {Unset, PyFalse}, s \in {Unset, Str(CustomSrc)}}

\* what the version lookup of one get_config call can get: an exception, a response
\* without a release, a response that names a release
Lookups(st) == IF Requests(st)
               THEN {[raises |-> TRUE, ok |-> FALSE, location |-> None],
                     [raises |-> FALSE, ok |-> FALSE, location |-> None],
                     [raises |-> FALSE, ok |-> TRUE, location |-> Str(Loc4)]}
               ELSE {NoResponse}

\* one get_config call of a command
Resolve(l) == resolved[l]

\* the configurations get_config can return, res being the table of them
Resolved(res) == {res[l] : l \in {k \in DOMAIN res : res[k].status = "ok"}}

CliPaths(res) == {c.cli_path : c \in Resolved(res)}

SrcPaths(res) == {c.src_css.s : c \in {k \in Resolved(res) : Truthy(k.src_css)}}

DistPaths(res) == {c.dist_css : c \in Resolved(res)}

\* the files at the start: a binary (executable or not) or nothing at each cli_path,
\* a stylesheet or nothing at each src_css and dist_css
InitialFiles(cli, css) ==
    {f \in [cli \cup css -> {Missing, File(TRUE, OLD_BINARY, 0), File(FALSE, OLD_BINARY, 0),
                               File(FALSE, CUSTOM_CSS, 0)}] :
        /\ \A p \in cli : f[p].content # CUSTOM_CSS
        /\ \A p \in css : f[p].content # OLD_BINARY}

\* the directories at the start: the parents of the files, and any of those of cli
InitialDirs(f, cli) ==
    {{Parent(p) : p \in {q \in DOMAIN f : f[q].exists}} \cup extra :
        extra \in SUBSET {Parent(p) : p \in cli}}

\* the start of a process whose version lookups, if it makes any, get one of lookups
InitWith(lookups) ==
    /\ settings \in CommandSettings
    /\ platform = [system |-> RawLinux, machine |-> S_x86_64]
    /\ fsCli = "dir"
    /\ resp = NoResponse
    /\ ver = NoVer
    /\ cfg = NoConfig
    /\ SupervisorConstructed
    /\ resolved = [l \in (IF Requests(settings) THEN lookups ELSE {NoResponse}) |->
                       get_config(settings, platform, fsCli, l)]
    /\ fs \in InitialFiles(CliPaths(resolved), SrcPaths(resolved) \cup DistPaths(resolved))
    /\ dirs \in InitialDirs(fs, DOMAIN fs \ (SrcPaths(resolved) \cup DistPaths(resolved)))
    /\ cache = [p \in DOMAIN fs \ (SrcPaths(resolved) \cup DistPaths(resolved)) |-> NoEntry]
    /\ now = 0
    /\ last = NoCall
    /\ ops = 0

InitCommands == InitWith(Lookups(DefaultSettings))

\* the record of a call: r is its outcome
Called(op, force, verbose, r, run, dl) ==
    [op |-> op, prev |-> last.op, force |-> force, verbose |-> verbose, status |-> r.status,
     requests |-> RequestCount(r.configs, r.downloads), downloads |-> r.downloads,
     configs |-> r.configs, before |-> fs, dirsBefore |-> dirs, out |-> r.out, ran |-> r.ran,
     cmd |-> r.cmd, run |-> IF r.ran THEN run ELSE NoRun,
     dl |-> IF r.downloads > 0 THEN dl ELSE NoDownload, checked |-> r.checked]

\* the call ends: its outcome r becomes the state
Return(op, force, verbose, r, run, dl) ==
    /\ fs' = r.fs /\ dirs' = r.dirs /\ cache' = r.cache
    /\ last' = Called(op, force, verbose, r, run, dl)

\* the outcome of _download_cli_with_verbose as the outcome of a call
OfAcquisition(r, c) ==
    [status |-> r.status, fs |-> r.fs, dirs |-> r.dirs, cache |-> r.cache,
     downloads |-> r.downloads, configs |-> <<c>>, out |-> <<>>, ran |-> FALSE, cmd |-> <<>>,
     checked |-> r.checked]

\* the outcome of remove_cli and of the bootstrap as the outcome of a call
OfFiles(status, f, d, c) ==
    [status |-> status, fs |-> f, dirs |-> d, cache |-> cache,
     downloads |-> 0, configs |-> <<c>>, out |-> <<>>, ran |-> FALSE, cmd |-> <<>>,
     checked |-> FALSE]

\* the outcome of build and watch as the outcome of a call
OfTool(r) ==
    [status |-> r.status, fs |-> r.fs, dirs |-> r.dirs, cache |-> r.cache,
     downloads |-> r.downloads, configs |-> r.configs, out |-> r.out, ran |-> r.ran,
     cmd |-> r.cmd, checked |-> FALSE]

\* what the tool can do when started from cli_path
RunsFor(f, cli_path) == IF Executable(f, cli_path) THEN RunOutcomes
                        ELSE {[kind |-> "OSError", returncode |-> 0, stderr |-> <<>>]}

\* _download_cli_with_verbose is called, forced or not, and resolves c
AcquireWith(op, force, c) ==
    \E dl \in (IF Downloads(c, fs, force) THEN DownloadResponses ELSE {NoDownload}) :
        Return(op, force, FALSE,
               OfAcquisition(download_cli_with_verbose(c, fs, dirs, cache, now, force, dl), c),
               NoRun, dl)

\* _download_cli_with_verbose is called, forced or not
Acquire(op, force) ==
    /\ ops < MaxOps
    /\ \E l \in DOMAIN resolved : AcquireWith(op, force, Resolve(l))
    /\ ops' = ops + 1
    /\ UNCHANGED <<now, resolved>>
    /\ UNCHANGED cfgvars
    /\ UNCHANGED supvars

\* _download_cli() is called
EnsureCli == Acquire("acquire", FALSE)

\* the download_cli command
DownloadCli == Acquire("download_cli", TRUE)

\* the remove_cli command
RemoveCli ==
    /\ ops < MaxOps
    /\ \E l \in DOMAIN resolved :
         Return("remove_cli", FALSE, FALSE,
                OfFiles(Resolve(l).status, remove_cli(Resolve(l), fs), dirs, Resolve(l)),
                NoRun, NoDownload)
    /\ ops' = ops + 1
    /\ UNCHANGED <<now, resolved>>
    /\ UNCHANGED cfgvars
    /\ UNCHANGED supvars

\* the bootstrap ends with outcome r
BootstrapReturn(verbose, r, c) ==
    Return("bootstrap", FALSE, verbose, OfFiles(r.status, r.fs, r.dirs, c), NoRun, NoDownload)

\* _create_standard_config_with_verbose is called
Bootstrap ==
    /\ ops < MaxOps
    /\ \E l \in DOMAIN resolved, verbose \in BOOLEAN :
         BootstrapReturn(verbose,
                         create_standard_config_with_verbose(Resolve(l), fs, dirs, now, verbose),
                         Resolve(l))
    /\ ops' = ops + 1
    /\ UNCHANGED <<now, resolved>>
    /\ UNCHANGED cfgvars
    /\ UNCHANGED supvars

\* the tool runs, if the command gets that far: pre is the command up to the run
RunAndReturn(op, c1, c2, c3, force, verbose, dl, pre) ==
    \E run \in (IF pre.ran THEN RunsFor(pre.fs, c1.cli_path) ELSE {NoRun}) :
        Return(op, force, verbose,
               OfTool(run_tool(op, c1, c2, c3, fs, dirs, cache, now, force, verbose, dl, run)),
               run, dl)

\* build or watch with the configurations its three get_config calls return
RunToolWith(op, c1, c2, c3, force, verbose) ==
    \E dl \in (IF c1.status = "ok" /\ Downloads(c2, fs, FALSE)
                THEN DownloadResponses ELSE {NoDownload}) :
        RunAndReturn(op, c1, c2, c3, force, verbose, dl,
                     run_tool(op, c1, c2, c3, fs, dirs, cache, now, force, verbose, dl, NoRun))

\* build or watch runs from its first line to its last: a management command is the
\* one call of its process
RunTool(op, force, verbose) ==
    /\ ops = 0
    /\ \E l1 \in DOMAIN resolved, l2 \in DOMAIN resolved, l3 \in DOMAIN resolved :
         RunToolWith(op, Resolve(l1), Resolve(l2), Resolve(l3), force, verbose)
    /\ ops' = ops + 1
    /\ UNCHANGED <<now, resolved>>
    /\ UNCHANGED cfgvars
    /\ UNCHANGED supvars

\* the build command
Build == \E force \in BOOLEAN, verbose \in BOOLEAN : RunTool("build", force, verbose)

\* the watch command
Watch == \E verbose \in BOOLEAN : RunTool("watch", FALSE, verbose)

\* the user installs a binary by hand
CreateBinary ==
    /\ ops < MaxOps
    /\ \E p \in DOMAIN cache :
         /\ ~Exists(fs, p)
         /\ fs' = [fs EXCEPT ![p] = File(TRUE, OLD_BINARY, now)]
         /\ dirs' = dirs \cup {Parent(p)}
    /\ last' = [NoCall EXCEPT !.op = "file change", !.prev = last.op]
    /\ ops' = ops + 1
    /\ UNCHANGED <<cache, now, resolved>>
    /\ UNCHANGED cfgvars
    /\ UNCHANGED supvars

\* the user deletes the binary by hand
DeleteBinary ==
    /\ ops < MaxOps
    /\ \E p \in DOMAIN cache :
         /\ Exists(fs, p)
         /\ fs' = Unlink(fs, p)
    /\ last' = [NoCall EXCEPT !.op = "file change", !.prev = last.op]
    /\ ops' = ops + 1
    /\ UNCHANGED <<dirs, cache, now, resolved>>
    /\ UNCHANGED cfgvars
    /\ UNCHANGED supvars

\* time passes: less than the validity window of the cache, or all of it
Tick ==
    /\ \E d \in {CACHE_DURATION - 1, CACHE_DURATION} :
          /\ now + d <= MaxTime
          /\ now' = now + d
    /\ UNCHANGED <<fs, dirs, cache, last, resolved, ops>>
    /\ UNCHANGED cfgvars
    /\ UNCHANGED supvars

\* acquisition calls, removals and file changes, in any order
NextAcquire ==
    \/ EnsureCli \/ DownloadCli \/ RemoveCli
    \/ CreateBinary \/ DeleteBinary \/ Tick

\* acquisition does not look at the stylesheets; its version lookup fails or names
\* one release
InitAcquire ==
    /\ InitWith({[raises |-> TRUE, ok |-> FALSE, location |-> None],
                 [raises |-> FALSE, ok |-> TRUE, location |-> Str(Loc4)]})
    /\ settings.TAILWIND_CLI_VERSION # Str(Ver3)
    /\ settings.TAILWIND_CLI_SRC_CSS = Unset
    /\ \A p \in DOMAIN fs \ DOMAIN cache : ~fs[p].exists

SpecAcquire == InitAcquire /\ [][NextAcquire]_vars

\* a build, a watch or a bootstrap
NextTool == Build \/ Watch \/ Bootstrap

SpecTool == InitCommands /\ [][NextTool]_vars

(* ====================================================================== *)
(* Properties of the configuration resolver                               *)
(* ====================================================================== *)
S_config_flag == <<"-","-","c","o","n","f","i","g">>

S_linux == <<"l","i","n","u","x">>

\* the parsed version is at least 4.0.0 (a prerelease of 4.0.0 is below it)
IsV4(v) == /\ v.major >= 4
           /\ ~(v.major = 4 /\ v.minor = 0 /\ v.patch = 0 /\ v.prerelease # <<>>)

Returned == cfg.status = "ok"

\* the setting is explicitly set to None, "" or another falsy value
ExplicitlyEmpty(v) == v # Unset /\ ~Truthy(v)

\* C1 as stated: every returned configuration has src_css set and config_file
\* null for versions >= 4.0.0, and src_css null and config_file set below 4.0.0.
C1_Original ==
    Returned =>
        /\ IsV4(cfg.version) => (cfg.src_css # None /\ cfg.config_file = None)
        /\ ~IsV4(cfg.version) => (cfg.src_css = None /\ cfg.config_file # None)

\* C1 (amended): for versions >= 4.0.0 src_css is set and config_file is null;
\* below 4.0.0 config_file is set, and src_css is null exactly when
\* TAILWIND_CLI_SRC_CSS is unset or empty.
C1_VersionGate ==
    Returned =>
        /\ IsV4(cfg.version) => (cfg.src_css # None /\ cfg.config_file = None)
        /\ ~IsV4(cfg.version) =>
              /\ cfg.config_file # None
              /\ (cfg.src_css = None <=> ~Truthy(settings.TAILWIND_CLI_SRC_CSS))

C1_Witness == /\ Returned /\ ~IsV4(cfg.version)
              /\ cfg.src_css # None /\ cfg.config_file # None

\* the project only sets STATICFILES_DIRS and TAILWIND_CLI_VERSION = "3.4.13"
DefaultsWithVersion3 ==
    /\ settings.STATICFILES_DIRS = StaticList(<<StaticDir>>)
    /\ settings.TAILWIND_CLI_VERSION = Str(Ver3)
    /\ \A n \in SettingNames \ {"TAILWIND_CLI_VERSION"} : settings[n] = Unset

\* C2: with version 3.4.13 and default settings src_css is absent, config_file
\* is BASE_DIR/tailwind.config.js and build_cmd is
\* [cli_path, "--output", dist_css, "--minify", "--config", config_file].
C2_BuildCmdV3 ==
    (Returned /\ DefaultsWithVersion3) =>
        /\ cfg.src_css = None
        /\ cfg.config_file = PathObj(BASE_DIR \o <<"/">> \o S_default_config)
        /\ build_cmd(cfg) = <<cfg.cli_path, S_output, cfg.dist_css, S_minify,
                              S_config_flag, cfg.config_file.s>>

C4_LegacyConfigRejected ==
    (/\ cfg.status # "none"
     /\ Truthy(settings.TAILWIND_CLI_CONFIG_FILE)
     /\ ver.status = "ok" /\ IsV4(ver.version))
        => cfg.status = "ValueError"

C4_Witness ==
    /\ Truthy(settings.TAILWIND_CLI_CONFIG_FILE)
    /\ ver.status = "ok" /\ IsV4(ver.version)
    /\ cfg.status = "ValueError"
    /\ cfg.msg = "TAILWIND_CLI_CONFIG_FILE is not used by this library with Tailwind CSS >= 4.x."

\* C5: get_config raises ValueError whenever STATICFILES_DIRS is None or empty,
\* or TAILWIND_CLI_ASSET_NAME, TAILWIND_CLI_SRC_REPO or TAILWIND_CLI_DIST_CSS is
\* explicitly empty, or TAILWIND_CLI_SRC_CSS is explicitly empty with a version
\* >= 4.0.0, or TAILWIND_CLI_CONFIG_FILE is explicitly empty with a version < 4.0.0.
C5_InvalidSettings ==
    (/\ cfg.status # "none"
     /\ \/ settings.STATICFILES_DIRS.k = "none"
        \/ settings.STATICFILES_DIRS.l = <<>>
        \/ ExplicitlyEmpty(settings.TAILWIND_CLI_ASSET_NAME)
        \/ ExplicitlyEmpty(settings.TAILWIND_CLI_SRC_REPO)
        \/ ExplicitlyEmpty(settings.TAILWIND_CLI_DIST_CSS)
        \/ (ExplicitlyEmpty(settings.TAILWIND_CLI_SRC_CSS) /\ ver.status = "ok" /\ IsV4(ver.version))
        \/ (ExplicitlyEmpty(settings.TAILWIND_CLI_CONFIG_FILE) /\ ver.status = "ok" /\ ~IsV4(ver.version)))
        => cfg.status = "ValueError"

\* the configured version is "latest" and the lookup request was issued
LookedUp == ver.status # "none" /\ Requests(settings)

\* C6: with version "latest", a request failure, a non-OK response or a response
\* without a location header makes get_version return the fallback "4.0.6".
C6_LookupFallsBack ==
    (LookedUp /\ (resp.raises \/ ~resp.ok \/ resp.location = None))
        => (ver.status = "ok" /\ ver.version_str = FALLBACK_VERSION)

\* the trailing path segment of a location, ignoring a trailing slash
LastSegment(loc) == LET parts == Split(RStrip(loc, "/"), "/") IN parts[Len(parts)]

\* a string without its leading "v"
WithoutLeadingV(seg) == IF seg # <<>> /\ seg[1] = "v" THEN Tail(seg) ELSE seg

\* C7: an OK response with a location header resolves "latest" to the trailing
\* path segment of the location with only its leading "v" removed; any other
\* configured version is used verbatim and without a request.
C7_VersionFromLocation ==
    /\ (LookedUp /\ ~resp.raises /\ resp.ok /\ resp.location # None)
          => (/\ ver.status = "ok"
              /\ ver.version_str = WithoutLeadingV(LastSegment(resp.location.s)))
    /\ (ver.status # "none" /\ settings.TAILWIND_CLI_VERSION \notin {Unset, Str(S_latest)})
          => (/\ ver.status = "ok"
              /\ ver.version_str = settings.TAILWIND_CLI_VERSION.s
              /\ ver.requests = 0 /\ resp = NoResponse)

\* C8: the platform is the lower-cased OS name with "darwin" mapped to "macos";
\* the architecture is the lower-cased machine string with "x86_64" and "amd64"
\* mapped to "x64" and "aarch64" to "arm64", anything else unchanged; the
\* extension is ".exe" exactly on "windows".
C8_PlatformNormalization ==
    Returned =>
        /\ platform.system = RawWindows => cfg.system = S_windows
        /\ platform.system = RawDarwin => cfg.system = S_macos
        /\ platform.system = RawLinux => cfg.system = S_linux
        /\ platform.machine \in {S_x86_64, RawAMD64} => cfg.machine = S_x64
        /\ platform.machine \in {S_aarch64} => cfg.machine = S_arm64
        /\ platform.machine \in {S_arm64, RawARM64} => cfg.machine = S_arm64
        /\ StrLower(platform.machine) \notin {S_x86_64, S_amd64, S_aarch64}
              => cfg.machine = StrLower(platform.machine)
        /\ cfg.extension = (IF cfg.system = S_windows THEN S_exe ELSE <<>>)
        /\ (cfg.extension = S_exe) <=> (platform.system = RawWindows)

C8_Witness == /\ Returned
              /\ platform = [system |-> RawWindows, machine |-> RawAMD64]
              /\ cfg.machine = S_x64 /\ cfg.extension = S_exe

\* the configured CLI path is an existing executable regular file
CliIsExecutableFile == settings.TAILWIND_CLI_PATH = Str(CustomCliPath) /\ fsCli = "file_x"

\* C9: download_url is <asset>-<platform>-<arch><ext> (no version in the file
\* name) under .../releases/download/v<version>/, and a synthesized cli_path is
\* named tailwindcss-<platform>-<arch>-<version><ext>.
C9_UrlAndCliName ==
    Returned =>
        LET asset == IF settings.TAILWIND_CLI_ASSET_NAME = Unset THEN S_tailwindcss
                     ELSE settings.TAILWIND_CLI_ASSET_NAME.s
            file == asset \o <<"-">> \o cfg.system \o <<"-">> \o cfg.machine \o cfg.extension
            dir == <<"/","r","e","l","e","a","s","e","s","/","d","o","w","n","l","o","a","d","/","v">>
                       \o cfg.version_str \o <<"/">>
        IN /\ EndsWith(cfg.download_url, dir \o file)
           /\ LastSegment(cfg.download_url) = file
           /\ ~CliIsExecutableFile =>
                 PathName(cfg.cli_path) = S_tailwindcss \o <<"-">> \o cfg.system \o <<"-">>
                                             \o cfg.machine \o <<"-">> \o cfg.version_str
                                             \o cfg.extension

C9_Witness == /\ Returned /\ ~CliIsExecutableFile
              /\ settings.TAILWIND_CLI_ASSET_NAME = Str(CustomAsset)
              /\ settings.TAILWIND_CLI_PATH = Str(CustomCliPath)
              /\ cfg.extension = S_exe

(* ====================================================================== *)
(* Properties of the process supervisor                                   *)
(* ====================================================================== *)
\* child c exited by itself with a non-zero status while child o, which was
\* launched too, kept running: o never ended before the supervisor signalled it
FailedWhileOtherRuns(c, o) ==
    /\ c # o
    /\ child[c].st = "dead" /\ child[c].byItself /\ child[c].status # 0
    /\ child[o].st # "none" /\ ~child[o].byItself

\* what C10 requires of a state
C10_TornDown ==
    \A c, o \in Children :
        FailedWhileOtherRuns(c, o) =>
            /\ result # "raised"
            /\ result = "returned" =>
                  /\ shutdown_requested
                  /\ processes = <<>>
                  /\ child[o].terminateCalls >= 1
                  /\ child[o].st = "dead" \/ child[o].oserr

Stopped == result \in {"returned", "raised"}

NoChildAlive == \A c \in Children : child[c].st # "alive"

\* C11: once SIGINT or SIGTERM has been delivered while start_concurrent_processes
\* runs, eventually no child the supervisor launched is alive and
\* start_concurrent_processes has ended.
C11_SignalStopsChildren == (signals >= 1) ~> (Stopped /\ NoChildAlive)

\* C12: under every interleaving of signal handlers with launch, monitor and
\* cleanup, each child is sent SIGTERM at most once and SIGKILL at most once.
C12_TeardownOnce ==
    \A c \in Children : child[c].sigterms <= 1 /\ child[c].sigkills <= 1

\* C13: when the exception of a failed launch leaves start_concurrent_processes,
\* no child launched before it is alive and the process list is empty.
C13_LaunchFailureTearsDown ==
    result = "raised" => (processes = <<>> /\ NoChildAlive)

\* C20: Stopped is reached only when every launched child is confirmed not alive,
\* also on the paths where terminate() or kill() raise an OSError, and once
\* Stopped no child is alive.
C20_StoppedOnlyWhenAllEnded ==
    Stopped => \A c \in Children : child[c].st = "none" \/ (child[c].st = "dead" /\ child[c].reaped)

\* child c exited with status zero while child o is alive, and no signal arrived
ExitedCleanlyWhileOtherRuns(c, o) ==
    /\ c # o
    /\ child[c].st = "dead" /\ child[c].status = 0
    /\ child[o].st = "alive"
    /\ signals = 0

\* start_concurrent_processes is in the monitor loop, or about to enter it
Monitoring ==
    /\ result = "running"
    /\ Len(stack) = 1
    /\ stack[1].pc \in {"append_server", "mon_while", "mon_for"}

\* what C21 requires of a state
C21_KeepsMonitoring ==
    \A c, o \in Children :
        ExitedCleanlyWhileOtherRuns(c, o) =>
            /\ ~shutdown_requested
            /\ child[o].terminateCalls = 0 /\ child[o].sigterms = 0 /\ child[o].sigkills = 0
            /\ o \in {processes[k] : k \in 1..Len(processes)} \/ stack[1].pc = "append_server"
            /\ Monitoring

\* the while loop of _monitor_processes is left for the cleanup that follows it
LeavesMonitorLoop ==
    /\ stack # <<>> /\ stack[1].pc = "mon_while"
    /\ stack' # <<>> /\ stack'[1].pc = "cl_iter"

\* C21: the monitor loop is left only when shutdown was requested or no child is
\* alive; while one child has exited with status zero, the other is alive and no
\* signal has arrived, shutdown is not requested, the other child is sent nothing and
\* the supervisor stays in the monitor loop.
C21_MonitorLoopExit ==
    /\ []C21_KeepsMonitoring
    /\ [][LeavesMonitorLoop => (shutdown_requested \/ NoChildAlive)]_vars

C21_Witness ==
    /\ ExitedCleanlyWhileOtherRuns(WATCH, SERVER)
    /\ child[WATCH].reaped
    /\ stack[1].pc = "mon_for" /\ stack[1].i = 1

\* C22: once shutdown_requested is set, no further child process is launched (a
\* signal handled between the launch of the watch process and the launch of the
\* server keeps the server from being started), and the flag is never reset.
C22_NoLaunchAfterShutdown ==
    [][shutdown_requested =>
          /\ shutdown_requested'
          /\ \A c \in Children : child[c].st = "none" => child'[c].st = "none"]_vars

(* ====================================================================== *)
(* Properties of binary acquisition                                       *)
(* ====================================================================== *)
\* the last call was a call of _download_cli_with_verbose whose get_config succeeded
Acquired == last.op \in {"acquire", "download_cli"} /\ last.configs[1].status = "ok"

\* the cli_path of the configuration the last call resolved first
LastCliPath == last.configs[1].cli_path

\* C14: a non-forced acquisition with automatic download disabled fails with a
\* CommandError when the binary is absent from cli_path at the time of the call, and
\* otherwise succeeds without a download and without changing a file.
C14_DisabledAcquisition ==
    (Acquired /\ ~last.force /\ ~Truthy(last.configs[1].automatic_download))
        => /\ last.status = (IF Exists(last.before, LastCliPath) THEN "ok" ELSE "CommandError")
           /\ last.downloads = 0
           /\ fs = last.before

\* the second of two consecutive non-forced acquisitions
SecondAcquisition == Acquired /\ last.op = "acquire" /\ last.prev = "acquire"

\* C15 as stated: the second of two consecutive acquisitions issues no HTTP request
\* when the binary already exists at cli_path, whatever the version setting.
C15_Original ==
    (SecondAcquisition /\ Exists(last.before, LastCliPath)) => last.requests = 0

\* C15: when the binary exists at cli_path and is executable, the second of two
\* consecutive non-forced acquisitions issues no download request and changes no file;
\* it issues no HTTP request at all when the version is set explicitly, and exactly one,
\* the version lookup of get_config, when the version is "latest".
C15_NoSecondDownload ==
    (SecondAcquisition /\ Executable(last.before, LastCliPath))
        => /\ last.downloads = 0
           /\ fs = last.before
           /\ last.requests = (IF Requests(settings) THEN 1 ELSE 0)

C15_Witness ==
    /\ SecondAcquisition /\ Executable(last.before, LastCliPath)
    /\ Requests(settings) /\ last.requests = 1 /\ last.status = "ok"

\* C16: an acquisition that downloads creates the missing parent directories of
\* cli_path, writes the downloaded bytes there and makes the file executable, with and
\* without a content-length; a failing download ends in a CommandError.
C16_DownloadInstalls ==
    (Acquired /\ last.downloads = 1)
        => IF last.dl.raises \/ last.dl.bad_status \/ last.dl.breaks
           THEN last.status = "CommandError"
           ELSE /\ last.status = "ok"
                /\ Parent(LastCliPath) \in dirs
                /\ fs[LastCliPath].exists /\ fs[LastCliPath].x
                /\ fs[LastCliPath].content = BINARY

\* the last call was an acquisition whose download failed
FailedDownload == Acquired /\ last.downloads = 1 /\ last.status = "CommandError"

\* the next call is a non-forced acquisition with automatic download enabled that
\* resolves the same cli_path
AcquiresAgain ==
    /\ ops' = ops + 1
    /\ last'.op = "acquire" /\ last'.configs[1].status = "ok"
    /\ Truthy(last'.configs[1].automatic_download)
    /\ last'.configs[1].cli_path = LastCliPath

\* C23: after a download that failed, forced downloads over an existing executable
\* binary included, the file at cli_path is as it was before the failed call, or the
\* next non-forced acquisition with automatic download enabled downloads again.
C23_FailedDownloadNotInstalled ==
    [][(FailedDownload /\ AcquiresAgain)
          => (fs[LastCliPath] = last.before[LastCliPath] \/ last'.downloads = 1)]_vars

(* ====================================================================== *)
(* Properties of the build and watch commands                             *)
(* ====================================================================== *)
\* the last call was a bootstrap of the source stylesheet whose get_config succeeded
Bootstrapped == last.op = "bootstrap" /\ last.configs[1].status = "ok"

Templates == {DEFAULT_SOURCE_CSS, DAISY_UI_SOURCE_CSS}

\* C17: the bootstrap changes no file when the configuration has no src_css; a missing
\* file at src_css is written with one of the two templates (under either policy), and
\* an existing file is left alone or holds a template afterwards.
C17_BootstrapWrites ==
    Bootstrapped
        => LET src == last.configs[1].src_css
           IN IF ~Truthy(src) THEN fs = last.before
              ELSE IF ~Exists(last.before, src.s)
              THEN last.status = "ok" /\ fs[src.s].exists /\ fs[src.s].content \in Templates
              ELSE fs[src.s] = last.before[src.s] \/ fs[src.s].content \in Templates

\* C18: one invocation of build, watch or download_cli resolves the configuration
\* exactly once, so the steps of the command agree on version, cli_path and
\* download_url.
C18_ResolvedOnce ==
    last.op \in {"build", "watch", "download_cli"}
        => /\ Len(last.configs) = 1
           /\ \A i, j \in 1..Len(last.configs) :
                 (last.configs[i].status = "ok" /\ last.configs[j].status = "ok")
                     => /\ last.configs[i].version_str = last.configs[j].version_str
                        /\ last.configs[i].cli_path = last.configs[j].cli_path
                        /\ last.configs[i].download_url = last.configs[j].download_url

\* how often a line was printed
Occurrences(out, line) == Cardinality({i \in 1..Len(out) : out[i] = line})

\* the messages of the command that ran the tool
ErrorMessage == IF last.op = "watch" THEN M_watch_failed ELSE M_build_failed

SuccessMessage == IF last.op = "watch" THEN M_watch_stopped
                  ELSE M_built \o last.configs[1].dist_css \o M_quote_dot

CancelMessage == IF last.op = "watch" THEN M_watch_stopped ELSE M_build_canceled

ErrorLine == ErrorMessage \o S_colon \o (IF last.run.stderr # <<>> THEN last.run.stderr ELSE M_unknown)

\* C19: when build or watch has run the tool: a non-zero exit prints the line
\* "<error_message>: <stderr, or 'An unknown error occurred.'>" once, as the last line,
\* prints no success message and ends the command with status 1; a zero exit prints
\* the success message and the command ends with status 0; a KeyboardInterrupt prints
\* the cancellation message of the command and the command ends with status 0.
C19_ExitStatus ==
    (last.ran /\ last.run.kind \in {"exit", "KeyboardInterrupt"})
        => IF last.run.kind = "KeyboardInterrupt"
           THEN /\ ExitStatus(last.status) = 0
                /\ last.out # <<>> /\ last.out[Len(last.out)] = CancelMessage
           ELSE IF last.run.returncode = 0
           THEN /\ ExitStatus(last.status) = 0
                /\ Occurrences(last.out, SuccessMessage) = 1
           ELSE /\ ExitStatus(last.status) = 1
                /\ Occurrences(last.out, ErrorLine) = 1
                /\ last.out[Len(last.out)] = ErrorLine
                /\ Occurrences(last.out, SuccessMessage) = 0
                /\ ~last.verbose => last.out = <<ErrorLine>>

C19_Witness ==
    /\ last.ran /\ last.run.kind = "exit" /\ last.run.returncode = 1
    /\ last.run.stderr = StderrText /\ last.status = "SystemExit"
    /\ last.out = <<M_build_failed \o S_colon \o StderrText>>
\* the last call was a build whose setup succeeded, so that it got as far as deciding
\* whether to rebuild: the acquisition returned and the bootstrap after it did too
DecisionReached ==
    /\ last.op = "build" /\ Len(last.configs) = 3
    /\ create_standard_config_with_verbose(last.configs[3], fs, dirs, now, last.verbose).status = "ok"

\* the stylesheet is up to date: dist_css and src_css exist and src_css is not newer
UpToDate(f, c) ==
    /\ Exists(f, c.dist_css)
    /\ Truthy(c.src_css) /\ Exists(f, c.src_css.s)
    /\ ~(f[c.src_css.s].mtime > f[c.dist_css].mtime)

\* C24: for every configuration get_config returns (src_css null below 4.0.0
\* included) and every state of the files, the up-to-date decision of build raises
\* nothing: without --force the build is skipped exactly when dist_css exists, src_css
\* exists and src_css is not newer than dist_css, and otherwise build_cmd is executed;
\* with --force build_cmd is always executed.
C24_UpToDateDecision ==
    DecisionReached
        => /\ last.status # "AttributeError"
           /\ IF ~last.force /\ UpToDate(fs, last.configs[1])
              THEN ~last.ran /\ last.status = "ok"
              ELSE last.ran /\ last.cmd = build_cmd(last.configs[1])
====
